---- MODULE Spec2Model ----
(***************************************************************************)
(* The EduConnect Application controller (src/app.js): startup, the auth  *)
(* listener, the visibility-driven chat polling, the global failure        *)
(* handlers and the teardown, as a state machine over the browser's event  *)
(* queue.  Every action is one event callback run to completion (or one    *)
(* synchronous stretch of an async function up to its next await).         *)
(*                                                                         *)
(* The collaborators auth.js, ui.js and router.js are not part of the      *)
(* sources at hand; what the controller needs of them (the polling timer   *)
(* behind ui.startChatPolling / ui.stopChatPolling / ui.cleanup, the       *)
(* notifications of auth.addListener) is modelled from their boundary      *)
(* contract.                                                               *)
(***************************************************************************)
EXTENDS Naturals, Sequences, FiniteSets

\* ------------------------------------------------------------------ bounds
\* calls of init() in a session: the constructor's, and those a caller of
\* the exported app makes after it
MaxInit == 2

\* group ids that occur in paths: "1" .. MaxGroup
MaxGroup == 2
\* users the auth collaborator can report: 1 .. MaxUser
MaxUser == 1

\* ------------------------------------------------------------------ values
null == "null"

UserNames == << "ana", "bia", "caio", "duda" >>

Users == { UserNames[u] : u \in 1..MaxUser }

GroupNames == << "1", "2", "3", "4" >>

GroupIds == { GroupNames[g] : g \in 1..MaxGroup }

\* AuthSnapshot { isAuthenticated: bool, user: UserRef | null }
AuthSnapshots == [isAuthenticated : BOOLEAN, user : Users \cup {null}]

\* numeric status codes carried by api:error
Statuses == {400, 401, 404, 500, 503}

\* A path is the sequence of its tokens: the separator "/" and the text
\* between separators.  "/group/1" is << "/", "group", "/", "1" >>.
Paths ==
    { << "/" >>, << "/", "groups", "/", "1" >>, << "/", "group", "/" >>,
      << "/", "group", "/", "1", "/", "chat" >> }
    \cup { << "/", "group", "/", g >> : g \in GroupIds }

\* String.prototype.startsWith('/group/')
startsWithGroup(path) ==
    /\ Len(path) >= 3
    /\ path[1] = "/"
    /\ path[2] = "group"
    /\ path[3] = "/"

\* String.prototype.split('/'): the pieces between separators, the empty
\* piece "" where two separators touch or the path starts or ends with one.
RECURSIVE split(_, _, _)
split(path, i, piece) ==
    IF i > Len(path) THEN << piece >>
    ELSE IF path[i] = "/" THEN << piece >> \o split(path, i + 1, << >>)
    ELSE split(path, i + 1, piece \o << path[i] >>)

\* currentPath.split('/')[2]  (JavaScript indexes from 0): << >> is ""
\* and "absent" is undefined
segment2(path) ==
    LET pieces == split(path, 1, << >>)
    IN  IF Len(pieces) >= 3 THEN pieces[3] ELSE << "absent" >>

\* truthiness of the group id: undefined and "" are falsy
truthy(piece) == piece # << >> /\ piece # << "absent" >>

\* ------------------------------------------------------------------ state
VARIABLES
    isInitialized,   \* Application.isInitialized
    currentUser,     \* Application.currentUser
    pc,              \* where init() / startApplication() stand
    readyState,      \* document.readyState: "loading" or "interactive"
    windowProps,     \* the required names that are truthy properties of window
    capabilities,    \* the required capabilities the browser has
    hidden,          \* document.hidden
    pathname,        \* window.location.pathname
    authState,       \* the auth collaborator's current snapshot
    authListeners,   \* number of callbacks registered with auth.addListener
    listeners,       \* event names the controller has a listener for
    polling,         \* group ids with an active chat-polling timer (ui)
    body,            \* what document.body shows: "app", "incompatible", "critical"
    gate,            \* the result of checkBrowserCompatibility, once it ran
    log,             \* startup milestones of the session, in order
    notified,        \* the snapshot delivered last to the listener, << >> if none
    paused,          \* the polling timers the last hiding of the tab stopped
    ev,              \* the event handled last: [kind, arg, handled]
    pre,             \* the polling timers just before that event was handled
    effects          \* the collaborator calls made while handling it, in order

vars == << isInitialized, currentUser, pc, readyState, windowProps,
           capabilities, hidden,
           pathname, authState, authListeners, listeners, polling, body, gate,
           log, notified, paused, ev, pre, effects >>

\* The part of the state a callback can change, as one record: the callbacks
\* below are functions from such a record to the record they leave behind.
\* effects starts empty for every event.
App ==
    [isInitialized |-> isInitialized, currentUser |-> currentUser, pc |-> pc,
     authListeners |-> authListeners, listeners |-> listeners,
     polling |-> polling, body |-> body, gate |-> gate, log |-> log,
     effects |-> << >>]

Commit(s) ==
    /\ isInitialized' = s.isInitialized
    /\ currentUser' = s.currentUser
    /\ pc' = s.pc
    /\ authListeners' = s.authListeners
    /\ listeners' = s.listeners
    /\ polling' = s.polling
    /\ body' = s.body
    /\ gate' = s.gate
    /\ log' = s.log
    /\ effects' = s.effects

\* a call of a collaborator (or of a hook), recorded in order
Call(s, fn, argument) == [s EXCEPT !.effects = Append(@, << fn, argument >>)]

Milestone(s, m) == [s EXCEPT !.log = Append(@, m)]

\* ------------------------------------------------------------------ ui
\* a startChatPolling that forgets to clear the previous timer
startChatPolling_keepsPrevious(s, groupId) ==
    [Call(s, "ui.startChatPolling", groupId) EXCEPT !.polling = @ \cup {groupId}]

\* ui.startChatPolling(groupId): one polling timer at most; starting stops
\* the previous one first.
startChatPolling(s, groupId) ==
    [Call(s, "ui.startChatPolling", groupId) EXCEPT !.polling = {groupId}]

\* ui.stopChatPolling(): stopping a stopped task is a no-op.
stopChatPolling(s) ==
    [Call(s, "ui.stopChatPolling", << >>) EXCEPT !.polling = {}]

\* ui.cleanup(): stops all timers the ui owns.
uiCleanup(s) ==
    [Call(s, "ui.cleanup", << >>) EXCEPT !.polling = {}]

showToast(s, message) == Call(s, "ui.showToast", message)

\* ------------------------------------------------------------------ tracking
trackEvent(s, eventName) == Call(s, "trackEvent", eventName)

trackError(s, errorType) == Call(s, "trackError", errorType)

\* ------------------------------------------------------------------ auth
updateGlobalUserInfo(s, user) == Call(s, "updateGlobalUserInfo", user)

cleanupUserData(s) == stopChatPolling(Call(s, "cleanupUserData", << >>))

\* an onUserLogin that tracks the login and leaves the global ui as it was
onUserLogin_noRefresh(s, user) ==
    trackEvent(Call(s, "onUserLogin", user), "user_login")

onUserLogin(s, user) ==
    updateGlobalUserInfo(
        trackEvent(Call(s, "onUserLogin", user), "user_login"), user)

onUserLogout(s) ==
    cleanupUserData(trackEvent(Call(s, "onUserLogout", << >>), "user_logout"))

handleAuthStateChange(s, snapshot) ==
    LET s1 == [s EXCEPT !.currentUser = snapshot.user]
    IN  IF snapshot.isAuthenticated /\ snapshot.user # null
        THEN onUserLogin(s1, snapshot.user)
        ELSE IF ~snapshot.isAuthenticated /\ s1.currentUser # null
        THEN onUserLogout(s1)
        ELSE s1

\* ------------------------------------------------------------------ polling
pauseBackgroundTasks(s) == stopChatPolling(s)

\* a resumeBackgroundTasks that starts the polling for whatever follows
\* '/group/', the empty id included
resumeBackgroundTasks_anyId(s, currentPath) ==
    IF startsWithGroup(currentPath)
    THEN LET groupId == segment2(currentPath)
         IN  IF groupId # << "absent" >> THEN startChatPolling(s, groupId) ELSE s
    ELSE s

resumeBackgroundTasks(s, currentPath) ==
    IF startsWithGroup(currentPath)
    THEN LET groupId == segment2(currentPath)
         IN  IF truthy(groupId) THEN startChatPolling(s, groupId) ELSE s
    ELSE s

\* a visibilitychange listener with its branches swapped
onVisibilityChange_inverted(s, isHidden, currentPath) ==
    IF ~isHidden THEN pauseBackgroundTasks(s)
    ELSE resumeBackgroundTasks(s, currentPath)

\* the visibilitychange listener
onVisibilityChange(s, isHidden, currentPath) ==
    IF isHidden THEN pauseBackgroundTasks(s)
    ELSE resumeBackgroundTasks(s, currentPath)

\* getPageNameFromPath(path)
getPageNameFromPath(path) ==
    IF startsWithGroup(path) THEN "Pagina do Grupo"
    ELSE IF path = << "/" >> THEN "Inicio"
    ELSE IF path = << "/", "login" >> THEN "Login"
    ELSE IF path = << "/", "register" >> THEN "Criar Conta"
    ELSE IF path = << "/", "dashboard" >> THEN "Dashboard"
    ELSE "Pagina"

\* the router:navigate listener: the announcement (after its 500 ms timer)
onRouterNavigate(s, path) ==
    Call(s, "ui.announceToScreenReader", getPageNameFromPath(path))

\* ------------------------------------------------------------------ failures
\* Script files an uncaught failure can come from, as the pieces of their
\* names: the controller's app.js, the ui collaborator's ui.js, and a script
\* of another party named webapp.js.
ControllerFile == << "app.js" >>

ScriptFiles == { ControllerFile, << "ui.js" >>, << "web", "app.js" >> }

\* What the error event carries.  thrown = "Error": event.error is an Error
\* object, whose stack names the file it was thrown in; "value": a value
\* that is no Error was thrown (it has no stack); "none": event.error is
\* null (the browser withholds the error of a script of another origin).
ErrorEvents ==
    [origin : ScriptFiles, thrown : {"Error"}]
    \cup [origin : {ControllerFile}, thrown : {"value", "none"}]

\* event.error.stack: the frame of the throw, or nothing
stack(err) == IF err.thrown = "Error" THEN err.origin ELSE << >>

\* text.includes(piece), on names cut into pieces
includes(text, piece) == \E i \in DOMAIN text : text[i] = piece

\* an error listener that takes the failure for fatal and tears down
onError_tearsDown(s, err) ==
    LET told == IF err.thrown # "none" /\ stack(err) # << >>
                   /\ includes(stack(err), "app.js")
                THEN showToast(s, "Erro critico da aplicacao")
                ELSE s
    IN  [trackError(told, "javascript_error")
            EXCEPT !.isInitialized = FALSE, !.polling = {}]

\* the error listener of window
onError(s, err) ==
    LET told == IF err.thrown # "none" /\ stack(err) # << >>
                   /\ includes(stack(err), "app.js")
                THEN showToast(s, "Erro critico da aplicacao")
                ELSE s
    IN  trackError(told, "javascript_error")

\* the unhandledrejection listener of window
onUnhandledRejection(s) ==
    trackError(showToast(Call(s, "event.preventDefault", << >>),
                         "Ocorreu um erro inesperado"),
               "unhandled_promise_rejection")

\* the online and offline listeners of window
onOnline(s) == trackEvent(showToast(s, "Conexao restabelecida"), "network_online")

onOffline(s) == trackEvent(showToast(s, "Sem conexao com a internet"), "network_offline")

\* an api:error listener that notifies before it looks at the status
onApiError_toastFirst(s, status) ==
    LET told == showToast(s, "Problema no servidor")
    IN  IF status = 401 THEN told
        ELSE IF status >= 500 THEN told
        ELSE s

\* an api:error listener that takes every error status for a server problem
onApiError_clientErrorsToo(s, status) ==
    IF status = 401 THEN s
    ELSE IF status >= 400 THEN showToast(s, "Problema no servidor")
    ELSE s

\* the api:error listener
onApiError(s, status) ==
    IF status = 401 THEN s
    ELSE IF status >= 500 THEN showToast(s, "Problema no servidor")
    ELSE s

\* ------------------------------------------------------------------ fatal paths
handleCriticalError(s) ==
    trackError([Call(Milestone(s, "handleCriticalError"), "fatalScreen", "critical")
                  EXCEPT !.body = "critical"],
               "critical_error")

showBrowserCompatibilityWarning(s) ==
    [Call(s, "fatalScreen", "incompatible") EXCEPT !.body = "incompatible"]

\* a cleanup that stops the ui timers and forgets the lifecycle flag
cleanup_keepsInitialized(s) == uiCleanup(s)

\* cleanup(): ui.cleanup() and isInitialized = false, with no await
cleanup(s) == [uiCleanup(s) EXCEPT !.isInitialized = FALSE]

\* ------------------------------------------------------------------ startup
requiredFeatures ==
    << "fetch", "localStorage", "addEventListener", "querySelector",
       "classList", "Promise", "CustomEvent" >>

Range(seq) == { seq[i] : i \in DOMAIN seq }

\* requiredFeatures.filter(feature => !window[feature]), for a window whose
\* truthy properties among the required names are win
unsupportedFeatures(win) ==
    SelectSeq(requiredFeatures, LAMBDA feature : feature \notin win)

\* a gate whose filter tests only the names it spells out and lets the
\* others (addEventListener, querySelector, classList) through
checkBrowserCompatibility_namedOnly(s, win) ==
    LET named == {"fetch", "localStorage", "Promise", "CustomEvent"}
        unsupported ==
            SelectSeq(requiredFeatures,
                      LAMBDA feature : feature \in named /\ feature \notin win)
    IN  IF Len(unsupported) > 0
        THEN [showBrowserCompatibilityWarning(Milestone(s, "gate:fail"))
                EXCEPT !.gate = [ran |-> TRUE, pass |-> FALSE,
                                 unsupported |-> unsupported]]
        ELSE [Milestone(s, "gate:pass")
                EXCEPT !.gate = [ran |-> TRUE, pass |-> TRUE,
                                 unsupported |-> unsupported]]

checkBrowserCompatibility(s, win) ==
    LET unsupported == unsupportedFeatures(win)
    IN  IF Len(unsupported) > 0
        THEN [showBrowserCompatibilityWarning(Milestone(s, "gate:fail"))
                EXCEPT !.gate = [ran |-> TRUE, pass |-> FALSE,
                                 unsupported |-> unsupported]]
        ELSE [Milestone(s, "gate:pass")
                EXCEPT !.gate = [ran |-> TRUE, pass |-> TRUE,
                                 unsupported |-> unsupported]]

\* auth.addListener(authState => this.handleAuthStateChange(authState))
initializeModules(s) ==
    [Milestone(s, "auth.addListener") EXCEPT !.authListeners = @ + 1]

\* a startApplication that subscribes to auth before it runs the gate
startApplication_subscribeFirst(s, win, addListenerThrows) ==
    LET m == initializeModules(Milestone(s, "startApplication"))
        c == checkBrowserCompatibility(m, win)
    IN  IF ~c.gate.pass THEN [c EXCEPT !.pc = "done"]
        ELSE IF addListenerThrows THEN [c EXCEPT !.pc = "awaitRejected"]
        ELSE [c EXCEPT !.pc = "awaitModules"]

\* startApplication() up to its await.  initializeModules is async: when
\* auth.addListener throws, the await rethrows in the continuation.
startApplication(s, win, addListenerThrows) ==
    LET c == checkBrowserCompatibility(Milestone(s, "startApplication"), win)
    IN  IF ~c.gate.pass THEN [c EXCEPT !.pc = "done"]
        ELSE IF addListenerThrows THEN [c EXCEPT !.pc = "awaitRejected"]
        ELSE [initializeModules(c) EXCEPT !.pc = "awaitModules"]

\* a startApplication whose await sits outside its try: the rejection of
\* initializeModules() leaves the function unhandled
startApplicationResumed_awaitOutsideTry(s, trackEventThrows) ==
    IF s.pc = "awaitRejected"
    THEN [s EXCEPT !.pc = "done"]
    ELSE LET ready == Milestone([s EXCEPT !.isInitialized = TRUE], "ready")
         IN  IF trackEventThrows
             THEN [handleCriticalError(ready) EXCEPT !.pc = "done"]
             ELSE [trackEvent(ready, "app_initialized") EXCEPT !.pc = "done"]

\* startApplication() after its await
startApplicationResumed(s, trackEventThrows) ==
    IF s.pc = "awaitRejected"
    THEN [handleCriticalError(s) EXCEPT !.pc = "done"]
    ELSE LET ready == Milestone([s EXCEPT !.isInitialized = TRUE], "ready")
         IN  IF trackEventThrows
             THEN [handleCriticalError(ready) EXCEPT !.pc = "done"]
             ELSE [trackEvent(ready, "app_initialized") EXCEPT !.pc = "done"]

EventNames ==
    { "unhandledrejection", "error", "api:error", "online", "offline",
      "visibilitychange", "beforeunload", "focusin", "load", "keydown",
      "router:navigate", "ui:modal", "DOMContentLoaded" }

addEventListeners(s, names) ==
    [s EXCEPT !.listeners =
        [e \in EventNames |-> IF e \in names THEN @[e] + 1 ELSE @[e]]]

setupGlobalErrorHandling(s) ==
    Milestone(addEventListeners(s, {"unhandledrejection", "error", "api:error"}),
              "setupGlobalErrorHandling")

setupApplicationEvents(s) ==
    Milestone(addEventListeners(s, {"online", "offline", "visibilitychange",
                                    "beforeunload", "focusin"}),
              "setupApplicationEvents")

setupPerformanceMonitoring(s) ==
    Milestone(addEventListeners(s, {"load"}), "setupPerformanceMonitoring")

\* setupAccessibility(); addSkipLink() is the call that can throw (it
\* dereferences document.body), after the keydown listener is in place
setupAccessibility(s, addSkipLinkThrows) ==
    IF addSkipLinkThrows THEN addEventListeners(s, {"keydown"})
    ELSE Milestone(addEventListeners(s, {"keydown", "router:navigate", "ui:modal"}),
                   "setupAccessibility")

SetupSteps ==
    << "setupGlobalErrorHandling", "setupApplicationEvents",
       "setupPerformanceMonitoring", "setupAccessibility" >>

\* the setup steps of init(), in order, up to the one that throws (if any)
RECURSIVE setupFrom(_, _, _)
setupFrom(s, k, throwsIn) ==
    IF k > Len(SetupSteps) THEN s
    ELSE IF SetupSteps[k] = throwsIn
    THEN IF throwsIn = "setupAccessibility" THEN setupAccessibility(s, TRUE) ELSE s
    ELSE setupFrom(
            CASE k = 1 -> setupGlobalErrorHandling(s)
              [] k = 2 -> setupApplicationEvents(s)
              [] k = 3 -> setupPerformanceMonitoring(s)
              [] OTHER -> setupAccessibility(s, FALSE),
            k + 1, throwsIn)

\* an init that starts the application whatever document.readyState is
init_ignoresReadiness(s, ready, win, throwsIn, addListenerThrows) ==
    LET s1 == setupFrom(Milestone(s, "init"), 1, throwsIn)
    IN  IF throwsIn # "none"
        THEN [handleCriticalError(s1) EXCEPT !.pc = "done"]
        ELSE startApplication(s1, win, addListenerThrows)

\* an init whose readiness test lacks the else: while the document loads it
\* registers the DOMContentLoaded callback and starts the application as well
init_missingElse(s, ready, win, throwsIn, addListenerThrows) ==
    LET s1 == setupFrom(Milestone(s, "init"), 1, throwsIn)
    IN  IF throwsIn # "none"
        THEN [handleCriticalError(s1) EXCEPT !.pc = "done"]
        ELSE IF ready = "loading"
        THEN startApplication(addEventListeners(s1, {"DOMContentLoaded"}),
                              win, addListenerThrows)
        ELSE startApplication(s1, win, addListenerThrows)

\* init(): it has no await, so it runs to its end within the constructor
init(s, ready, win, throwsIn, addListenerThrows) ==
    LET s1 == setupFrom(Milestone(s, "init"), 1, throwsIn)
    IN  IF throwsIn # "none"
        THEN [handleCriticalError(s1) EXCEPT !.pc = "done"]
        ELSE IF ready = "loading"
        THEN [addEventListeners(s1, {"DOMContentLoaded"}) EXCEPT !.pc = "waitDOM"]
        ELSE startApplication(s1, win, addListenerThrows)

\* ------------------------------------------------------------------ the session
\* Of the required names, those a browser defines on window when it has the
\* capability.  querySelector is a method of Document and Element, classList
\* a property of Element: window[feature] is undefined for both in every
\* browser.
windowLevel == { "fetch", "localStorage", "addEventListener", "Promise", "CustomEvent" }

\* window[feature] is truthy for these names in a browser that has caps
browserWindow(caps) == caps \cap windowLevel

\* the sets of required names a session may have: every one of them, or one
\* of them missing
Windows ==
    { Range(requiredFeatures) }
    \cup { Range(requiredFeatures) \ {feature} : feature \in Range(requiredFeatures) }

\* The environments of a session: a window on which the page's scripts have
\* put the DOM helpers too (every capability is a window property), and the
\* browser's own window of a browser that has every capability.
Environments ==
    { [capabilities |-> w, window |-> w] : w \in Windows }
    \cup { [capabilities |-> Range(requiredFeatures),
            window |-> browserWindow(Range(requiredFeatures))] }

Init ==
    /\ isInitialized = FALSE
    /\ currentUser = null
    /\ pc = "new"
    /\ readyState \in {"loading", "interactive"}
    /\ \E e \in Environments :
          capabilities = e.capabilities /\ windowProps = e.window
    /\ hidden \in BOOLEAN
    /\ pathname \in Paths
    /\ authState = [isAuthenticated |-> FALSE, user |-> null]
    /\ authListeners = 0
    /\ listeners = [e \in EventNames |-> 0]
    /\ polling = {}
    /\ body = "app"
    /\ gate = [ran |-> FALSE, pass |-> FALSE, unsupported |-> << >>]
    /\ log = << >>
    /\ notified = << >>
    /\ paused = {}
    /\ ev = [kind |-> "none", arg |-> << >>, handled |-> FALSE]
    /\ pre = {}
    /\ effects = << >>

\* between the await of startApplication and its continuation only
\* microtasks run: the browser dispatches none of its own events there
Suspended == pc \in {"awaitModules", "awaitRejected"}

\* a task of the event loop can run
TaskTurn == pc # "new" /\ ~Suspended

\* code of the page can run (a task or a microtask) and dispatch its signals
CodeTurn == pc # "new"

Handled(name) == listeners[name] > 0

\* new Application(): the constructor runs init()
Construct(throwsIn, addListenerThrows) ==
    /\ pc = "new"
    /\ Commit(init(App, readyState, windowProps, throwsIn, addListenerThrows))
    /\ ev' = [kind |-> "construct", arg |-> throwsIn, handled |-> TRUE]
    /\ pre' = polling
    /\ UNCHANGED << readyState, windowProps, capabilities, hidden, pathname, authState, notified, paused >>

\* the document finishes loading; the deferred startApplication() runs
DOMContentLoaded(addListenerThrows) ==
    /\ TaskTurn
    /\ readyState = "loading"
    /\ readyState' = "interactive"
    /\ Commit(IF Handled("DOMContentLoaded")
              THEN startApplication(App, windowProps, addListenerThrows)
              ELSE App)
    /\ ev' = [kind |-> "DOMContentLoaded", arg |-> addListenerThrows,
              handled |-> Handled("DOMContentLoaded")]
    /\ pre' = polling
    /\ UNCHANGED << windowProps, capabilities, hidden, pathname, authState, notified, paused >>

\* the continuation of startApplication() after await initializeModules()
StartApplicationResumed(trackEventThrows) ==
    /\ Suspended
    /\ Commit(startApplicationResumed(App, trackEventThrows))
    /\ ev' = [kind |-> "resumed",
              arg |-> [rejected |-> pc = "awaitRejected",
                       trackEventThrows |-> trackEventThrows /\ pc # "awaitRejected"],
              handled |-> TRUE]
    /\ pre' = polling
    /\ UNCHANGED << readyState, windowProps, capabilities, hidden, pathname, authState, notified, paused >>

\* the tab is hidden or shown: document.hidden changes to isHidden and
\* visibilitychange fires
VisibilityChange(isHidden) ==
    /\ TaskTurn
    /\ isHidden # hidden
    /\ hidden' = isHidden
    /\ Commit(IF Handled("visibilitychange")
              THEN onVisibilityChange(App, isHidden, pathname)
              ELSE App)
    /\ paused' = IF isHidden /\ Handled("visibilitychange") THEN polling ELSE {}
    /\ ev' = [kind |-> "visibilitychange",
              arg |-> [hidden |-> isHidden, paused |-> paused],
              handled |-> Handled("visibilitychange")]
    /\ pre' = polling
    /\ UNCHANGED << readyState, windowProps, capabilities, pathname, authState, notified >>

\* the router navigates: location.pathname changes and router:navigate fires
Navigate(path) ==
    /\ CodeTurn
    /\ pathname' = path
    /\ Commit(IF Handled("router:navigate") THEN onRouterNavigate(App, path) ELSE App)
    /\ ev' = [kind |-> "router:navigate", arg |-> << pathname, path >>,
              handled |-> Handled("router:navigate")]
    /\ pre' = polling
    /\ UNCHANGED << readyState, windowProps, capabilities, hidden, authState, notified, paused >>

\* the auth collaborator takes a new state and notifies its listeners
AuthNotify(snapshot) ==
    /\ CodeTurn
    /\ authState' = snapshot
    /\ Commit(IF authListeners > 0 THEN handleAuthStateChange(App, snapshot) ELSE App)
    /\ notified' = IF authListeners > 0 THEN << snapshot >> ELSE notified
    /\ ev' = [kind |-> "auth", arg |-> [snapshot |-> snapshot, previous |-> notified],
              handled |-> authListeners > 0]
    /\ pre' = polling
    /\ UNCHANGED << readyState, windowProps, capabilities, hidden, pathname, paused >>

\* the api collaborator signals a failed call
ApiError(status) ==
    /\ CodeTurn
    /\ Commit(IF Handled("api:error") THEN onApiError(App, status) ELSE App)
    /\ ev' = [kind |-> "api:error", arg |-> status, handled |-> Handled("api:error")]
    /\ pre' = polling
    /\ UNCHANGED << readyState, windowProps, capabilities, hidden, pathname, authState, notified, paused >>

\* a script of the page throws and nothing catches it
ErrorEvent(err) ==
    /\ CodeTurn
    /\ Commit(IF Handled("error") THEN onError(App, err) ELSE App)
    /\ ev' = [kind |-> "error", arg |-> err, handled |-> Handled("error")]
    /\ pre' = polling
    /\ UNCHANGED << readyState, windowProps, capabilities, hidden, pathname, authState, notified, paused >>

\* a promise of the page is rejected and nothing handles it
UnhandledRejection ==
    /\ TaskTurn
    /\ Commit(IF Handled("unhandledrejection") THEN onUnhandledRejection(App) ELSE App)
    /\ ev' = [kind |-> "unhandledrejection", arg |-> << >>,
              handled |-> Handled("unhandledrejection")]
    /\ pre' = polling
    /\ UNCHANGED << readyState, windowProps, capabilities, hidden, pathname, authState, notified, paused >>

\* the network comes back, or goes away
Online ==
    /\ TaskTurn
    /\ Commit(IF Handled("online") THEN onOnline(App) ELSE App)
    /\ ev' = [kind |-> "online", arg |-> << >>, handled |-> Handled("online")]
    /\ pre' = polling
    /\ UNCHANGED << readyState, windowProps, capabilities, hidden, pathname, authState, notified, paused >>

Offline ==
    /\ TaskTurn
    /\ Commit(IF Handled("offline") THEN onOffline(App) ELSE App)
    /\ ev' = [kind |-> "offline", arg |-> << >>, handled |-> Handled("offline")]
    /\ pre' = polling
    /\ UNCHANGED << readyState, windowProps, capabilities, hidden, pathname, authState, notified, paused >>

\* the user leaves the page (or is asked to confirm leaving it)
BeforeUnload ==
    /\ TaskTurn
    /\ Commit(IF Handled("beforeunload") THEN cleanup(App) ELSE App)
    /\ ev' = [kind |-> "beforeunload", arg |-> << >>, handled |-> Handled("beforeunload")]
    /\ pre' = polling
    /\ UNCHANGED << readyState, windowProps, capabilities, hidden, pathname, authState, notified, paused >>

Throws == {"none"} \cup Range(SetupSteps)

Next ==
    \/ \E throwsIn \in Throws, addListenerThrows \in BOOLEAN :
          Construct(throwsIn, addListenerThrows)
    \/ \E addListenerThrows \in BOOLEAN : DOMContentLoaded(addListenerThrows)
    \/ \E trackEventThrows \in BOOLEAN : StartApplicationResumed(trackEventThrows)
    \/ \E isHidden \in BOOLEAN : VisibilityChange(isHidden)
    \/ \E path \in Paths : Navigate(path)
    \/ \E snapshot \in AuthSnapshots : AuthNotify(snapshot)
    \/ \E status \in Statuses : ApiError(status)
    \/ \E err \in ErrorEvents : ErrorEvent(err)
    \/ UnhandledRejection
    \/ Online
    \/ Offline
    \/ BeforeUnload

Spec == Init /\ [][Next]_vars

\* The session with the event loop's guarantee stated: a continuation whose
\* awaited promise has settled is run (the microtask queue is drained
\* before the next task).
SpecFair ==
    Spec /\ WF_vars(\E trackEventThrows \in BOOLEAN :
                        StartApplicationResumed(trackEventThrows))

\* ------------------------------------------------------------------ other callers
\* ui.startChatPolling and ui.stopChatPolling are open to the rest of the
\* page (the group view, for one): the session with such callers in it.
PolledGroups == { << g >> : g \in GroupIds }

OtherCallerStarts(groupId) ==
    /\ CodeTurn
    /\ Commit(startChatPolling(App, groupId))
    /\ ev' = [kind |-> "ui.startChatPolling", arg |-> groupId, handled |-> TRUE]
    /\ pre' = polling
    /\ UNCHANGED << readyState, windowProps, capabilities, hidden, pathname, authState, notified, paused >>

OtherCallerStops ==
    /\ CodeTurn
    /\ Commit(stopChatPolling(App))
    /\ ev' = [kind |-> "ui.stopChatPolling", arg |-> << >>, handled |-> TRUE]
    /\ pre' = polling
    /\ UNCHANGED << readyState, windowProps, capabilities, hidden, pathname, authState, notified, paused >>

NextWithCallers ==
    \/ Next
    \/ \E groupId \in PolledGroups : OtherCallerStarts(groupId)
    \/ OtherCallerStops

\* a session in a window that has every required name
InitWithCallers == Init /\ windowProps = Range(requiredFeatures)

SpecWithCallers == InitWithCallers /\ [][NextWithCallers]_vars

\* ------------------------------------------------------------------ init() again
\* The module exports app and sets window.app: init() is a public method
\* and the page can call it again.  The session in which it does so, once
\* the startup has run to its end.
InitCalls == Cardinality({ i \in DOMAIN log : log[i] = "init" })

Starts == Cardinality({ i \in DOMAIN log : log[i] = "startApplication" })

\* app.init() called by the page; ev.arg keeps what was installed before
InitAgain(throwsIn, addListenerThrows) ==
    /\ pc = "done"
    /\ InitCalls < MaxInit
    /\ Commit(init(App, readyState, windowProps, throwsIn, addListenerThrows))
    /\ ev' = [kind |-> "init",
              arg |-> [isInitialized |-> isInitialized, listeners |-> listeners,
                       authListeners |-> authListeners, starts |-> Starts],
              handled |-> TRUE]
    /\ pre' = polling
    /\ UNCHANGED << readyState, windowProps, capabilities, hidden, pathname, authState, notified, paused >>

NextReinit ==
    \/ \E throwsIn \in Throws, addListenerThrows \in BOOLEAN :
          Construct(throwsIn, addListenerThrows)
    \/ \E addListenerThrows \in BOOLEAN : DOMContentLoaded(addListenerThrows)
    \/ \E trackEventThrows \in BOOLEAN : StartApplicationResumed(trackEventThrows)
    \/ \E throwsIn \in Throws, addListenerThrows \in BOOLEAN :
          InitAgain(throwsIn, addListenerThrows)
    \/ \E isHidden \in BOOLEAN : VisibilityChange(isHidden)
    \/ BeforeUnload

SpecReinit == InitWithCallers /\ [][NextReinit]_vars

\* ------------------------------------------------------------------ observations
Called(fn) == \E i \in DOMAIN effects : effects[i][1] = fn

CalledWith(fn, argument) ==
    \E i \in DOMAIN effects : effects[i][1] = fn /\ effects[i][2] = argument

\* the path matches the route /group/:id (one non-empty id, nothing after it)
RouteMatchesGroup(path) ==
    /\ Len(path) = 4
    /\ startsWithGroup(path)
    /\ path[4] # "/"

\* the :id of a path that matches /group/:id
RouteGroupId(path) == << path[4] >>

AllFeatures == Range(requiredFeatures)

Before(m1, m2) ==
    \A i \in DOMAIN log : log[i] = m2 => \E j \in 1..(i - 1) : log[j] = m1

\* a snapshot as the auth collaborator sends it in normal operation: it
\* carries a user exactly when it is authenticated
Canonical(snapshot) == snapshot.isAuthenticated <=> (snapshot.user # null)

\* the session started normally and is in its steady state
Ready == isInitialized /\ body = "app"

\* ------------------------------------------------------------------ claims

\* C1: after any visibility, route or auth event a ready controller
\* handled, the chat polling runs if and only if the tab is visible, the route
\* matches /group/:id and the user is authenticated.
C1_PollingIffVisibleGroupAuthenticated ==
    (/\ Ready
     /\ ev.kind \in {"visibilitychange", "router:navigate", "auth"}
     /\ ev.handled
     /\ Canonical(authState))
        => ((polling # {})
              <=> (~hidden /\ RouteMatchesGroup(pathname) /\ authState.isAuthenticated))

\* C2: a notification whose isAuthenticated equals that of the previous
\* notification triggers neither onUserLogin nor onUserLogout.
C2_RepeatedNotificationIsNoOp ==
    (/\ Ready
     /\ ev.kind = "auth"
     /\ ev.handled
     /\ Canonical(ev.arg.snapshot)
     /\ ev.arg.previous # << >>
     /\ Canonical(ev.arg.previous[1])
     /\ ev.arg.previous[1].isAuthenticated = ev.arg.snapshot.isAuthenticated)
        => (~Called("onUserLogin") /\ ~Called("onUserLogout"))

\* C3: at most one polling task is active at any time; after a start was
\* requested (for B, with whatever was active before), exactly the task
\* for B is active.
C3_AtMostOnePollingTask ==
    /\ Cardinality(polling) <= 1
    /\ \A i \in DOMAIN effects :
          (effects[i][1] = "ui.startChatPolling"
            /\ \A j \in (i + 1)..Len(effects) :
                  effects[j][1] \notin {"ui.stopChatPolling", "ui.cleanup"})
              => polling = {effects[i][2]}

\* C3 happens: the controller starts the polling for the group of the
\* path while another group's task (started by the group view) is active
C3_Witness ==
    /\ ev.kind = "visibilitychange"
    /\ Called("ui.startChatPolling")
    /\ pre # {}
    /\ polling # {}
    /\ pre # polling

\* C4: when a required capability is absent as startApplication runs, the
\* gate reports fail and the session is never ready afterwards.
C4_MissingCapabilityNeverReady ==
    (gate.ran /\ windowProps # AllFeatures)
        => (/\ ~gate.pass
            /\ Len(gate.unsupported) > 0
            /\ ~isInitialized
            /\ \A i \in DOMAIN log : log[i] # "ready")

\* C4 happens: events go on after the gate failed
C4_Witness ==
    /\ gate.ran
    /\ windowProps # AllFeatures
    /\ ev.kind \in {"auth", "visibilitychange", "beforeunload"}

\* C5: a logout notification (the previous one authenticated, this one
\* not) that finds polling running stops it, clears the cached user and
\* emits user_logout.
C5_LogoutStopsPolling ==
    (/\ Ready
     /\ ev.kind = "auth"
     /\ ev.handled
     /\ Canonical(ev.arg.snapshot)
     /\ ~ev.arg.snapshot.isAuthenticated
     /\ ev.arg.previous # << >>
     /\ Canonical(ev.arg.previous[1])
     /\ ev.arg.previous[1].isAuthenticated
     /\ pre # {})
        => (/\ polling = {}
            /\ currentUser = null
            /\ CalledWith("trackEvent", "user_logout"))

\* C6: hiding the tab stops the polling; showing it while the path is
\* /group/:id starts the polling for that :id.
C6_HideStopsShowRestarts ==
    (ev.kind = "visibilitychange" /\ ev.handled)
        => (/\ ev.arg.hidden => polling = {}
            /\ (~ev.arg.hidden /\ RouteMatchesGroup(pathname))
                  => (/\ polling = {RouteGroupId(pathname)}
                      /\ CalledWith("ui.startChatPolling", RouteGroupId(pathname))))

\* C6 happens: the tab was hidden while group 1 was polled, and is shown
\* again on /group/1
C6_Witness ==
    /\ ev.kind = "visibilitychange"
    /\ ~ev.arg.hidden
    /\ ev.arg.paused = {<< "1" >>}
    /\ pathname = << "/", "group", "/", "1" >>
    /\ polling = {<< "1" >>}

\* C7: a navigation from a group path to a path that does not match
\* /group/:id, with the polling running, stops the polling.
C7_LeavingGroupStopsPolling ==
    (/\ Ready
     /\ ev.kind = "router:navigate"
     /\ ev.handled
     /\ RouteMatchesGroup(ev.arg[1])
     /\ ~RouteMatchesGroup(ev.arg[2])
     /\ pre # {})
        => polling = {}

\* C8: a 401 api:error shows no toast, whatever the lifecycle state.
C8_UnauthorizedShowsNoToast ==
    (ev.kind = "api:error" /\ ev.arg = 401) => ~Called("ui.showToast")

\* C8 happens: the listener handled a 401
C8_Witness ==
    /\ ev.kind = "api:error"
    /\ ev.arg = 401
    /\ ev.handled
    /\ isInitialized

\* C9: ready and the auth subscription come only after the gate passed.
C9_GatePassesFirst ==
    /\ Before("gate:pass", "auth.addListener")
    /\ Before("gate:pass", "ready")
    /\ authListeners > 0 => gate.pass
    /\ isInitialized => gate.pass
    /\ \A i \in DOMAIN log : log[i] # "gate:fail" \/ authListeners = 0

\* C9 happens: a session that subscribed and became ready
C9_Witness ==
    /\ isInitialized
    /\ authListeners = 1
    /\ \E i \in DOMAIN log : log[i] = "ready"

\* a fatal path has run: the critical-error screen or the incompatibility
\* notice replaced the page
FatalRan == body # "app"

\* C10: once a fatal path has run no later event changes the lifecycle
\* state.
C10_FatalIsTerminal == [][FatalRan => isInitialized' = isInitialized]_vars

\* a failure was raised in the step just taken: in a setup step of init(),
\* or in startApplication() (the rejected await, or a throw after it)
FailureRaised ==
    \/ ev.kind = "construct" /\ ev.arg # "none"
    \/ ev.kind = "resumed" /\ (ev.arg.rejected \/ ev.arg.trackEventThrows)

\* C11: every failure raised in a setup step of init() or in
\* startApplication(), also when startApplication() runs from the
\* DOMContentLoaded callback, ends in handleCriticalError: it is the last
\* startup milestone, the critical screen is up and critical_error is tracked.
C11_FailureReachesCriticalHandler ==
    FailureRaised
        => (/\ log[Len(log)] = "handleCriticalError"
            /\ body = "critical"
            /\ CalledWith("trackError", "critical_error"))

\* a rejection of initializeModules() in the deferred startApplication()
C11_Witness ==
    /\ ev.kind = "resumed"
    /\ ev.arg.rejected
    /\ Handled("DOMContentLoaded")
    /\ body = "critical"

\* C12: when the beforeunload callback has run, no polling task is left, the
\* controller is not initialized, ui.cleanup() was called within that one
\* callback and no continuation of it is pending.
C12_TeardownStopsAndResets ==
    (ev.kind = "beforeunload" /\ ev.handled)
        => (/\ polling = {}
            /\ ~isInitialized
            /\ effects = << << "ui.cleanup", << >> >> >>
            /\ ~Suspended)

\* the teardown of a started controller whose polling task was running
C12_Witness ==
    /\ ev.kind = "beforeunload"
    /\ ev.handled
    /\ pre # {}
    /\ \E i \in DOMAIN log : log[i] = "ready"
    /\ ~isInitialized

\* C13: in a browser's own window, the gate passes if and only if no
\* required capability is absent, the list it reports is exactly the set of
\* absent capabilities, and when it fails the incompatibility screen is up
\* and the controller is not initialized.
C13_GateReportsAbsentCapabilities ==
    (gate.ran /\ windowProps = browserWindow(capabilities))
        => (/\ gate.pass <=> (capabilities = AllFeatures)
            /\ Range(gate.unsupported) = AllFeatures \ capabilities
            /\ ~gate.pass => (body = "incompatible" /\ ~isInitialized))

\* C14: the api:error listener shows exactly one server-problem toast for a
\* status of 500 or more, and nothing at all for a status that is neither
\* 401 nor 500 or more.
C14_ServerErrorsToastOnce ==
    (ev.kind = "api:error" /\ ev.handled)
        => (/\ ev.arg >= 500
                 => effects = << << "ui.showToast", "Problema no servidor" >> >>
            /\ (ev.arg # 401 /\ ev.arg < 500) => effects = << >>)

\* the listener handled a 500 and the toast is out
C14_Witness ==
    /\ ev.kind = "api:error"
    /\ ev.handled
    /\ ev.arg = 500
    /\ Called("ui.showToast")

\* C15: in a ready controller the error listener shows the reload toast if
\* and only if the uncaught failure was thrown in the controller's own file;
\* for a failure from anywhere else it only tracks the error.
C15_ReloadToastIffOwnCode ==
    (Ready /\ ev.kind = "error" /\ ev.handled)
        => (/\ Called("ui.showToast") <=> (ev.arg.origin = ControllerFile)
            /\ CalledWith("trackError", "javascript_error"))

\* the events of the recoverable failures
RecoverableKinds == { "unhandledrejection", "error", "api:error" }

\* C16: handling an unhandled rejection, an uncaught error or an api:error
\* of any status changes neither the lifecycle state (isInitialized, the
\* page shown, the position of startApplication) nor the cached user nor
\* the polling task.
C16_RecoverableFailuresKeepState ==
    [][ev'.kind \in RecoverableKinds
          => (/\ isInitialized' = isInitialized
              /\ body' = body
              /\ pc' = pc
              /\ currentUser' = currentUser
              /\ polling' = polling)]_vars

\* an uncaught error handled by a ready controller with a user cached and
\* the polling task running
C16_Witness ==
    /\ ev.kind = "error"
    /\ ev.handled
    /\ isInitialized
    /\ currentUser # null
    /\ polling # {}
    /\ pre = polling

\* the listener was notified of a login: an authenticated snapshot with its
\* user, after no notification or an unauthenticated one
LoginTransition ==
    /\ ev.kind = "auth"
    /\ ev.handled
    /\ ev.arg.snapshot.isAuthenticated
    /\ ev.arg.snapshot.user # null
    /\ ev.arg.previous = << >> \/ ~ev.arg.previous[1].isAuthenticated

StartedApplication == \E i \in DOMAIN log : log[i] = "startApplication"

\* C18: whenever startApplication() has begun, init() ran its steps before
\* it in the order failure handling, application listeners, performance
\* hooks, accessibility hooks; the document had finished loading; and the
\* failure, visibility, network and teardown listeners are installed.
C18_SetupBeforeStart ==
    StartedApplication
        => (/\ SubSeq(log, 1, 6) = << "init" >> \o SetupSteps \o << "startApplication" >>
            /\ readyState = "interactive"
            /\ \A e \in { "unhandledrejection", "error", "api:error", "visibilitychange",
                           "online", "offline", "beforeunload" } : Handled(e))

\* startApplication() began from the DOMContentLoaded callback
C18_Witness ==
    /\ StartedApplication
    /\ ev.kind = "DOMContentLoaded"
    /\ ev.handled

\* C19: when handleCriticalError has handled a failure, the controller is
\* not initialized, also when the failure was raised in startApplication()
\* after isInitialized was set.
C19_CriticalErrorMarksNotInitialized ==
    (Called("fatalScreen") /\ body = "critical") => ~isInitialized

\* the calls of auth.addListener so far
AddListenerCalls == { i \in DOMAIN log : log[i] = "auth.addListener" }

\* C20: in a whole session auth.addListener is called at most once, and the
\* auth collaborator holds at most one callback of the controller.
C20_SubscribesAtMostOnce ==
    /\ Cardinality(AddListenerCalls) <= 1
    /\ authListeners <= 1

\* a session whose startApplication() was deferred to DOMContentLoaded has
\* subscribed once, and events went on after that
C20_Witness ==
    /\ authListeners = 1
    /\ Handled("DOMContentLoaded")
    /\ \E i \in DOMAIN log : log[i] = "ready"
    /\ ev.kind = "visibilitychange"

\* C21: init() called again on an initialized controller installs no
\* further listener, does not run startApplication() again and registers no
\* second callback with auth.
C21_InitIsIdempotent ==
    (ev.kind = "init" /\ ev.arg.isInitialized)
        => (/\ listeners = ev.arg.listeners
            /\ Starts = ev.arg.starts
            /\ authListeners = ev.arg.authListeners)

\* the controller asked the ui to start the polling in the step just taken
StartRequested == Called("ui.startChatPolling")

\* C22: the controller asks for a polling start only when the tab has just
\* become visible, only once, and only with the non-empty text between the
\* second and the third separator of the current path, which starts with
\* '/group/'.
C22_StartOnlyOnVisibleGroupPath ==
    StartRequested
        => (/\ ev.kind = "visibilitychange"
            /\ ~ev.arg.hidden
            /\ ~hidden
            /\ SubSeq(pathname, 1, 3) = << "/", "group", "/" >>
            /\ Len(pathname) >= 4
            /\ pathname[4] # "/"
            /\ effects = << << "ui.startChatPolling", << pathname[4] >> >> >>)

\* the tab became visible on /group/1/chat and the start was requested for 1
C22_Witness ==
    /\ StartRequested
    /\ pathname = << "/", "group", "/", "1", "/", "chat" >>
    /\ polling = { << "1" >> }

\* the beforeunload callback has just run cleanup()
CleanupRan == ev.kind = "beforeunload" /\ ev.handled

\* C23: from the moment cleanup() has run the controller is never
\* initialized again, whatever events follow, the deferred
\* startApplication() included.
C23_TeardownIsFinal == [](CleanupRan => [](~isInitialized))

====
